---- MODULE Spec2Model ----
(***************************************************************************)
(* Table synchronisation engine of SQL_python_integration: write_to_sql    *)
(* with its helpers (check table, create table, correct types, classify   *)
(* rows with pandas merge, clear table, batch write), in the two variants  *)
(* the repository holds: the class sql_RW (sql_RW.py) and the module-level *)
(* functions of sql_utils.py.                                              *)
(***************************************************************************)
EXTENDS Integers, Sequences, FiniteSets, TLC

VARIABLES
    impl,         \* "sql_RW" or "sql_utils": which of the two engines runs
    conn,         \* what connecting to the destination does in this call
    destCols,     \* destination table: sequence of [name, type]; <<>> = no table
    destPK,       \* destination table: columns of its PRIMARY KEY constraint
    destRows,     \* destination table: bag of rows, [Row -> Nat]
    pc,           \* position of the write call
    df,           \* the caller's dataframe: [cols, rows]
    mode_arg,     \* kwarg write_mode / if_duplicated as the caller gave it
    write_mode,   \* kwarg write_mode / if_duplicated, after validation
    ID_cols,      \* kwarg ID_cols
    batch_size,   \* kwarg batch_size
    condition,    \* kwarg condition of clear_table: "" or a key to delete
    new_df,       \* result of correct_types: [cols, rows]
    data_insert,  \* rows to insert
    data_update,  \* rows to update
    part,         \* partition being written: "insert" or "update"
    batch_start,  \* loop variable of batch_write_data
    stmts,        \* statements sent to the destination in this call, in order
    batches,      \* batches executed in this call: [part, lo, hi, rows, cols]
    err,          \* the exception that ended the call, "" if none
    runs,         \* number of times the call was run with these arguments
    prev_err,     \* history: err of the previous run with these arguments
    base,         \* history: destination rows when the current run started
    script,       \* load_data_to_sql: the column being split, [lens, maxlen, i, overflow, kept, pos]
    open_cons     \* connections this call opened and did not close: [held, dropped]

vars == <<impl, conn, mode_arg, destCols, destPK, destRows, pc, df, write_mode, ID_cols,
          batch_size, condition, new_df, data_insert, data_update, part,
          batch_start, stmts, batches, err, runs, prev_err, base, script, open_cons>>

(***************************************************************************)
(* Bounds of the model                                                     *)
(***************************************************************************)
MaxRows == 2          \* rows of a caller's dataframe
MaxDestRows == 1      \* rows of the destination before the first call
MaxPart == 4          \* rows of a partition handed to batch_write_data alone

DefaultBatchSize == 5000

Keys == {1, 2}
Vals == {1, 2}
Row == [id : Keys, val : Vals]

RowSeqs(n) == UNION {[1..k -> Row] : k \in 0..n}
BatchSizes == (1..(MaxRows - 1)) \cup {DefaultBatchSize}

Min(a, b) == IF a < b THEN a ELSE b

(***************************************************************************)
(* Bags of rows: the destination table's content                           *)
(***************************************************************************)
EmptyBag == [r \in Row |-> 0]

RECURSIVE SumOver(_, _)
SumOver(f, S) ==
    IF S = {} THEN 0
    ELSE LET x == CHOOSE y \in S : TRUE IN f[x] + SumOver(f, S \ {x})

BagSize(b) == SumOver(b, Row)
BagAdd(b, r) == [b EXCEPT ![r] = @ + 1]

RECURSIVE BagOfSeq(_)
BagOfSeq(s) ==
    IF s = <<>> THEN EmptyBag ELSE BagAdd(BagOfSeq(Tail(s)), Head(s))

BagPlus(a, b) == [r \in Row |-> a[r] + b[r]]

(***************************************************************************)
(* Column names and dtypes                                                 *)
(***************************************************************************)
ColNames == {"id", "val", "Note", "note"}

\* str.lower()
Lower(c) == IF c = "Note" THEN "note" ELSE c

\* '[' + c + ']'
Bracket(c) ==
    CASE c = "id" -> "[id]"
      [] c = "val" -> "[val]"
      [] c = "Note" -> "[Note]"
      [] c = "note" -> "[note]"

IdentToks == {Bracket(c) : c \in ColNames} \cup ColNames

\* the column an identifier token names
ColOfTok(t) == CHOOSE c \in ColNames : t = Bracket(c) \/ t = c

DTypes == {"int64", "int32", "float64", "datetime64[ns]", "object", "bool",
           "category"}

\* sub in str(dtype), for the dtypes and the type names of type_transform
HasSub(sub, dtype) ==
    CASE sub = "int64" -> dtype = "int64"
      [] sub = "int" -> dtype \in {"int64", "int32", "int"}
      [] sub = "float" -> dtype \in {"float64", "float"}
      [] sub = "datetime" -> dtype = "datetime64[ns]"
      [] sub = "object" -> dtype = "object"
      [] sub = "bool" -> dtype = "bool"

Col(n, t) == [name |-> n, dtype |-> t]
BaseCols == <<Col("id", "int64"), Col("val", "int64")>>

ColNamesOf(cols) == [i \in 1..Len(cols) |-> cols[i].name]
InSeq(x, s) == \E i \in 1..Len(s) : s[i] = x

(***************************************************************************)
(* SQL text.  A statement is a sequence of tokens; the one-character       *)
(* tokens are kept apart so that Python's query[:-2] is the removal of the *)
(* last two tokens wherever the code applies it.                           *)
(***************************************************************************)
Chop2(q) == SubSeq(q, 1, Len(q) - 2)

\* 'CREATE TABLE [tbl](\n' and 'CREATE TABLE tbl(' : the table is "tbl"
TableNameRW == <<"[tbl]">>
TableNameUtils == <<"tb", "l">>

SimpleTypes == {"bigint", "int", "float", "real", "datetime"}

\* mutant: the length is rounded up
NvarcharLenCeil(maxlen) ==
    LET col_len == (maxlen * 12 + 9) \div 10
    IN IF col_len > 4000 THEN "MAX" ELSE ToString(col_len)

\* int(col_len * 1.2), 'MAX' above 4000
NvarcharLen(maxlen) ==
    LET col_len == (maxlen * 12) \div 10
    IN IF col_len > 4000 THEN "MAX" ELSE ToString(col_len)

\* sql_RW.create_table: the text added for one column (lines 325-343);
\* st = [q, raised]
CreateColumnRW(st, col, maxlen, ids) ==
    LET c == col.name
        t == col.dtype
        q == st.q
        typed ==
            IF HasSub("int64", t) THEN q \o <<Bracket(c), " ", "bigint", ",", " ">>
            ELSE IF HasSub("int", t) THEN q \o <<Bracket(c), " ", "int", ",", " ">>
            ELSE IF HasSub("float", t) THEN q \o <<Bracket(c), " ", "float", ",", " ">>
            ELSE IF HasSub("datetime", t) THEN q \o <<Bracket(c), " ", "datetime", ",", " ">>
            ELSE IF HasSub("object", t)
                 THEN q \o <<Bracket(c), " ", "nvarchar(", NvarcharLen(maxlen), ")", ",", " ">>
            ELSE q
        nn == IF InSeq(c, ids)
              THEN Chop2(typed) \o <<" ", "NOT NULL", ",", " ">>
              ELSE typed
    IN IF st.raised # "" THEN st
       ELSE IF ~HasSub("int", t) /\ ~HasSub("float", t) /\ ~HasSub("datetime", t)
               /\ ~HasSub("object", t) /\ HasSub("bool", t)
            \* query += + c + ' int, ' : unary plus on a str
            THEN [q |-> q, raised |-> "TypeError"]
       ELSE [q |-> nn \o <<"\n">>, raised |-> ""]

\* sql_utils.create_table: the text added for one column (lines 198-218)
CreateColumnUtils(st, col, maxlen, ids) ==
    LET c == col.name
        t == col.dtype
        q == st.q
        typed ==
            IF HasSub("int64", t) THEN q \o <<Bracket(c), " ", "bigint", ",", " ">>
            ELSE IF HasSub("int", t) THEN q \o <<Bracket(c), " ", "int", ",", " ">>
            ELSE IF HasSub("float", t) THEN q \o <<Bracket(c), " ", "real", ",", " ">>
            ELSE IF HasSub("datetime", t) THEN q \o <<Bracket(c), " ", "datetime", ",", " ">>
            ELSE IF HasSub("object", t)
                 THEN q \o <<Bracket(c), " ", "nvarchar(", "256", ")", ",", " ">>
            ELSE IF HasSub("bool", t) THEN q \o <<c, " ", "int", ",", " ">>
            ELSE q
        nn == IF InSeq(c, ids)
              THEN Chop2(typed) \o <<" ", "NOT NULL", ",", " ">>
              ELSE typed
    IN [q |-> nn, raised |-> ""]

RECURSIVE CreateColumns(_, _, _, _, _)
CreateColumns(variant, st, cols, maxlen, ids) ==
    IF cols = <<>> THEN st
    ELSE CreateColumns(variant,
                       IF variant = "sql_RW"
                       THEN CreateColumnRW(st, Head(cols), maxlen, ids)
                       ELSE CreateColumnUtils(st, Head(cols), maxlen, ids),
                       Tail(cols), maxlen, ids)

\* 'PRIMARY KEY(' + '[c], ' ... , then query[:-2] + ') \n' (sql_RW 346-350)
RECURSIVE PrimaryKeyCols(_)
PrimaryKeyCols(ids) ==
    IF ids = <<>> THEN <<>>
    ELSE <<Bracket(Head(ids)), ",", " ">> \o PrimaryKeyCols(Tail(ids))

PrimaryKeyClause(q, ids) ==
    IF Len(ids) > 0
    THEN Chop2(q \o <<"PRIMARY KEY(">> \o PrimaryKeyCols(ids)) \o <<")", " ", "\n">>
    ELSE q

\* the text of the CREATE TABLE statement: [q, raised]
CreateTableQuery(variant, cols, maxlen, ids) ==
    IF variant = "sql_RW"
    THEN LET st == CreateColumns(variant,
                       [q |-> <<"CREATE TABLE">> \o TableNameRW \o <<"(", "\n">>,
                        raised |-> ""], cols, maxlen, ids)
         IN IF st.raised # "" THEN st
            ELSE [q |-> Chop2(PrimaryKeyClause(st.q, ids)) \o <<")">>,
                  raised |-> ""]
    ELSE LET st == CreateColumns(variant,
                       [q |-> <<"CREATE TABLE">> \o TableNameUtils \o <<"(">>,
                        raised |-> ""], cols, maxlen, ids)
         IN [q |-> Chop2(st.q) \o <<")">>, raised |-> ""]

(***************************************************************************)
(* The destination's reading of a CREATE TABLE statement (T-SQL): column   *)
(* definitions separated by commas, a trailing comma allowed, then an      *)
(* optional PRIMARY KEY(...) clause.  White space is not significant.      *)
(***************************************************************************)
Strip(q) == SelectSeq(q, LAMBDA t : t \notin {" ", "\n"})
At(s, i) == IF i \in 1..Len(s) THEN s[i] ELSE "<eof>"

NoTable == [ok |-> FALSE, cols |-> <<>>, pk |-> <<>>]

RECURSIVE ParsePK(_, _, _, _)
ParsePK(s, i, cols, pk) ==
    IF At(s, i) \in IdentToks
    THEN LET pk2 == Append(pk, ColOfTok(s[i]))
         IN IF At(s, i + 1) = "," THEN ParsePK(s, i + 2, cols, pk2)
            ELSE IF At(s, i + 1) = ")" /\ At(s, i + 2) = ")" /\ i + 2 = Len(s)
                 THEN [ok |-> TRUE, cols |-> cols, pk |-> pk2]
            ELSE NoTable
    ELSE NoTable

RECURSIVE ParseItems(_, _, _)
ParseItems(s, i, cols) ==
    IF At(s, i) = ")" /\ i = Len(s)
    THEN [ok |-> Len(cols) > 0, cols |-> cols, pk |-> <<>>]
    ELSE IF At(s, i) = "PRIMARY KEY(" THEN ParsePK(s, i + 1, cols, <<>>)
    ELSE IF At(s, i) \in IdentToks
    THEN LET simple == At(s, i + 1) \in SimpleTypes
             sized == At(s, i + 1) = "nvarchar(" /\ At(s, i + 3) = ")"
                      /\ At(s, i + 2) \notin {"<eof>", ")", ","}
             j == IF simple THEN i + 2 ELSE i + 4
             nn == At(s, j) = "NOT NULL"
             k == IF nn THEN j + 1 ELSE j
             def == [name |-> ColOfTok(s[i]),
                     type |-> IF simple THEN s[i + 1] ELSE "nvarchar",
                     len |-> IF simple THEN "" ELSE At(s, i + 2),
                     notnull |-> nn]
         IN IF ~(simple \/ sized) THEN NoTable
            ELSE IF At(s, k) = "," THEN ParseItems(s, k + 1, Append(cols, def))
            ELSE IF At(s, k) = ")" /\ k = Len(s)
                 THEN [ok |-> TRUE, cols |-> Append(cols, def), pk |-> <<>>]
            ELSE NoTable
    ELSE NoTable

ParseCreate(q) ==
    LET s == Strip(q)
        named1 == At(s, 2) = "[tbl]" /\ At(s, 3) = "("
        named2 == At(s, 2) = "tb" /\ At(s, 3) = "l" /\ At(s, 4) = "("
        t == IF At(s, 1) # "CREATE TABLE" THEN NoTable
             ELSE IF named1 THEN ParseItems(s, 4, <<>>)
             ELSE IF named2 THEN ParseItems(s, 5, <<>>)
             ELSE NoTable
        names == {Lower(t.cols[i].name) : i \in 1..Len(t.cols)}
    IN IF t.ok /\ Cardinality(names) = Len(t.cols)
          /\ \A i \in 1..Len(t.pk) : Lower(t.pk[i]) \in names
       THEN t ELSE NoTable

(***************************************************************************)
(* ALTER TABLE ... ADD (check_sql_table)                                   *)
(***************************************************************************)
\* sql_RW.__check_sql_table lines 560-588: [q, raised]
AlterQueryRW(col, maxlen) ==
    LET c == col.name
        t == col.dtype
        q == <<"ALTER TABLE">> \o TableNameRW \o <<" ", "ADD", " ">>
    IN IF HasSub("int", t) THEN [q |-> q \o <<Bracket(c), " ", "bigint">>, raised |-> ""]
       ELSE IF HasSub("float", t) THEN [q |-> q \o <<Bracket(c), " ", "float">>, raised |-> ""]
       ELSE IF HasSub("datetime", t) THEN [q |-> q \o <<Bracket(c), " ", "datetime">>, raised |-> ""]
       ELSE IF HasSub("object", t)
            \* df[col] with col the lower-cased name
            THEN IF Lower(c) # c THEN [q |-> q, raised |-> "KeyError"]
                 ELSE [q |-> q \o <<Bracket(c), " ", "nvarchar", " ", "(",
                                    NvarcharLen(maxlen), ")">>, raised |-> ""]
       ELSE IF HasSub("bool", t) THEN [q |-> q \o <<Bracket(c), " ", "int">>, raised |-> ""]
       ELSE [q |-> q, raised |-> ""]

\* sql_utils.check_sql_table lines 333-350
AlterQueryUtils(col, maxlen) ==
    LET c == col.name
        t == col.dtype
        q == <<"ALTER TABLE">> \o TableNameUtils \o <<" ", "ADD", " ">>
    IN IF HasSub("int", t) THEN [q |-> q \o <<Bracket(c), " ", "bigint">>, raised |-> ""]
       ELSE IF HasSub("float", t) THEN [q |-> q \o <<Bracket(c), " ", "real">>, raised |-> ""]
       ELSE IF HasSub("datetime", t) THEN [q |-> q \o <<Bracket(c), " ", "datetime">>, raised |-> ""]
       ELSE IF HasSub("object", t)
            THEN [q |-> q \o <<Bracket(c), " ", "varchar", " ", "(", "256", ")">>,
                  raised |-> ""]
       ELSE IF HasSub("bool", t) THEN [q |-> q \o <<Bracket(c), " ", "int">>, raised |-> ""]
       ELSE [q |-> q, raised |-> ""]

AlterQuery(variant, col, maxlen) ==
    IF variant = "sql_RW" THEN AlterQueryRW(col, maxlen) ELSE AlterQueryUtils(col, maxlen)

\* the destination's reading of ALTER TABLE tbl ADD <column definition>
ParseAlter(q) ==
    LET s == Strip(q)
        n == IF At(s, 2) = "[tbl]" THEN 3 ELSE 4
        named == At(s, 2) = "[tbl]" \/ (At(s, 2) = "tb" /\ At(s, 3) = "l")
        simple == At(s, n + 2) \in SimpleTypes /\ Len(s) = n + 2
        sized == At(s, n + 2) \in {"nvarchar", "varchar"} /\ At(s, n + 3) = "("
                 /\ At(s, n + 5) = ")" /\ Len(s) = n + 5
    IN IF At(s, 1) = "ALTER TABLE" /\ named /\ At(s, n) = "ADD"
          /\ At(s, n + 1) \in IdentToks /\ (simple \/ sized)
       THEN [ok |-> TRUE,
             col |-> [name |-> ColOfTok(s[n + 1]), type |-> s[n + 2],
                      len |-> IF simple THEN "" ELSE s[n + 4], notnull |-> FALSE]]
       ELSE [ok |-> FALSE, col |-> <<>>]

(***************************************************************************)
(* Rows, keys and pandas.merge                                             *)
(***************************************************************************)
\* the tuple of a row's values in the columns K
KeyOf(r, K) == [i \in 1..Len(K) |-> r[K[i]]]

\* number of destination rows whose key equals that of r
Matches(r, K, rows) ==
    SumOver([x \in Row |-> IF KeyOf(x, K) = KeyOf(r, K) THEN rows[x] ELSE 0], Row)

RECURSIVE Repeat(_, _)
Repeat(x, n) == IF n <= 0 THEN <<>> ELSE <<x>> \o Repeat(x, n - 1)

\* the distinct keys of s in the order of their first appearance
RECURSIVE KeyOrder(_, _)
KeyOrder(s, K) ==
    IF s = <<>> THEN <<>>
    ELSE LET front == KeyOrder(SubSeq(s, 1, Len(s) - 1), K)
             k == KeyOf(s[Len(s)], K)
         IN IF InSeq(k, front) THEN front ELSE Append(front, k)

RECURSIVE ConcatGroups(_, _, _)
ConcatGroups(s, K, keys) ==
    IF keys = <<>> THEN <<>>
    ELSE SelectSeq(s, LAMBDA r : KeyOf(r, K) = Head(keys))
         \o ConcatGroups(s, K, Tail(keys))

\* mutant: the merge emits the left rows in their own order
GroupByKeyArrival(s, K) == s

\* the left rows in the order a merge with sort=False emits them: grouped by
\* key, the groups in order of first appearance, the rows of a group in order
GroupByKey(s, K) == ConcatGroups(s, K, KeyOrder(s, K))

RECURSIVE TimesMatches(_, _, _)
TimesMatches(s, K, rows) ==
    IF s = <<>> THEN <<>>
    ELSE Repeat(Head(s), Matches(Head(s), K, rows)) \o TimesMatches(Tail(s), K, rows)

\* pd.merge(new_df, ids_from_sql, how='inner', on=ID_cols)
MergeInner(left, K, rows) == TimesMatches(GroupByKey(left, K), K, rows)

\* mutant: the left_only filter is lost
MergeLeftOnlyUnfiltered(left, K, rows) == GroupByKey(left, K)

\* pd.merge(new_df, ids_from_sql, how='outer', on=ID_cols, indicator=True)
\*   .query('_merge == "left_only"').drop(['_merge'], axis=1)
MergeLeftOnly(left, K, rows) ==
    SelectSeq(GroupByKey(left, K), LAMBDA r : Matches(r, K, rows) = 0)

(***************************************************************************)
(* The destination's execution of row statements                           *)
(***************************************************************************)
DataCols == {"id", "val"}

\* does the bag respect the PRIMARY KEY constraint pk
Unique(rows, pk) ==
    pk = <<>> \/ \A r \in Row : rows[r] > 0 => Matches(r, pk, rows) = 1

\* INSERT INTO tbl (...) VALUES (?, ...) bound to one row
InsertRow(rows, r) == BagAdd(rows, r)

\* mutant: an UPDATE without its WHERE clause
UpdateRowEverywhere(rows, r, K) ==
    LET keycols == {K[i] : i \in 1..Len(K)}
        image(x) == [c \in DataCols |-> IF c \in keycols THEN x[c] ELSE r[c]]
    IN [y \in Row |-> SumOver([x \in Row |-> IF image(x) = y THEN rows[x] ELSE 0], Row)]

\* UPDATE tbl SET <non-key columns> = ? WHERE <key columns> = ? bound to one row
UpdateRow(rows, r, K) ==
    LET keycols == {K[i] : i \in 1..Len(K)}
        image(x) == [c \in DataCols |-> IF c \in keycols THEN x[c] ELSE r[c]]
    IN [y \in Row |->
          SumOver([x \in Row |-> IF KeyOf(x, K) = KeyOf(r, K) /\ image(x) = y
                                 THEN rows[x]
                                 ELSE IF KeyOf(x, K) # KeyOf(r, K) /\ x = y
                                 THEN rows[x] ELSE 0], Row)]

ExecRow(kind, rows, r, K) ==
    IF kind = "insert" THEN InsertRow(rows, r) ELSE UpdateRow(rows, r, K)

\* the rows of a batch applied one after the other
RECURSIVE ExecRows(_, _, _, _)
ExecRows(kind, rows, batch, K) ==
    IF batch = <<>> THEN rows
    ELSE ExecRows(kind, ExecRow(kind, rows, Head(batch), K), Tail(batch), K)

\* the longest prefix of the batch the destination's constraints accept
RECURSIVE Accepted(_, _, _, _, _)
Accepted(kind, rows, batch, K, pk) ==
    IF batch = <<>> THEN 0
    ELSE LET next == ExecRow(kind, rows, Head(batch), K)
         IN IF Unique(next, pk)
            THEN 1 + Accepted(kind, next, Tail(batch), K, pk)
            ELSE 0

(***************************************************************************)
(* check_sql_table                                                         *)
(***************************************************************************)
Stmt(kind, q) == [kind |-> kind, q |-> q]

Perms(S) == {p \in [1..Cardinality(S) -> S] : \A x \in S : \E i \in DOMAIN p : p[i] = x}

DestNames(cols) == {Lower(cols[i].name) : i \in 1..Len(cols)}

\* mutant: the columns the destination has are not taken out
NewColsAll(dfcols, cols) == {Lower(dfcols[i].name) : i \in 1..Len(dfcols)}

\* new_cols = set(df_cols).difference(set(sql_cols)), lower-cased names
NewCols(dfcols, cols) == {Lower(dfcols[i].name) : i \in 1..Len(dfcols)} \ DestNames(cols)

\* [c for c in df.columns if c.lower()==col][0]
ColCorrected(dfcols, col) ==
    dfcols[CHOOSE i \in 1..Len(dfcols) :
              /\ Lower(dfcols[i].name) = col
              /\ \A j \in 1..(i - 1) : Lower(dfcols[j].name) # col]

\* the loop over new_cols; st = [cols, stmts, err]
RECURSIVE AlterAll(_, _, _, _)
AlterAll(variant, st, order, frame) ==
    IF order = <<>> \/ st.err # "" THEN st
    ELSE LET aq == AlterQuery(variant, ColCorrected(frame.cols, Head(order)), frame.maxlen)
             parsed == ParseAlter(aq.q)
             sent == Append(st.stmts, Stmt("ALTER", aq.q))
             st2 == IF aq.raised # ""
                    THEN [st EXCEPT !.err = aq.raised]
                    ELSE IF ~parsed.ok
                    THEN [st EXCEPT !.stmts = sent, !.err = "DatabaseError: syntax"]
                    ELSE [st EXCEPT !.stmts = sent, !.cols = Append(@, parsed.col)]
         IN AlterAll(variant, st2, Tail(order), frame)

\* create_table: st = [cols, pk, stmts, err]; granted: the destination lets
\* this login create tables
CreateTable(variant, st, frame, ids, granted) ==
    LET cq == CreateTableQuery(variant, frame.cols, frame.maxlen, ids)
        parsed == ParseCreate(cq.q)
        sent == Append(st.stmts, Stmt("CREATE", cq.q))
    IN IF cq.raised # "" THEN [st EXCEPT !.err = cq.raised]
       ELSE IF ~granted
       THEN [st EXCEPT !.stmts = sent, !.err = "DatabaseError: permission denied"]
       ELSE IF ~parsed.ok
       THEN [st EXCEPT !.stmts = sent, !.err = "DatabaseError: syntax"]
       \* the destination holds a table of this name
       ELSE IF st.cols # <<>>
       THEN [st EXCEPT !.stmts = sent, !.err = "DatabaseError: object exists"]
       ELSE [st EXCEPT !.stmts = sent, !.cols = parsed.cols, !.pk = parsed.pk]

\* the table-existence probe: INFORMATION_SCHEMA.COLUMNS (sql_RW 528-534),
\* SELECT TOP 1 * (sql_utils 303)
ProbeStmt(variant) ==
    IF variant = "sql_RW" THEN Stmt("SELECT_COLUMNS", <<>>) ELSE Stmt("SELECT_TOP1", <<>>)

CheckSqlTableResult(variant, cols, pk, sent, frame, ids, granted, order) ==
    LET st0 == [cols |-> cols, pk |-> pk, stmts |-> Append(sent, ProbeStmt(variant)),
                err |-> ""]
    IN IF cols = <<>>
       \* after a creation sql_cols is the dataframe's own column list
       THEN CreateTable(variant, st0, frame, ids, granted)
       ELSE LET r == AlterAll(variant, [cols |-> st0.cols, stmts |-> st0.stmts,
                                        err |-> ""], order, frame)
            IN [cols |-> r.cols, pk |-> pk, stmts |-> r.stmts, err |-> r.err]

\* check_sql_table with its connections: [cols, pk, stmts, err].  link: what
\* connecting does; back: whether a connection refused at the first attempt
\* is accepted at the next.  sql_RW: read_query calls cursor.execute on the
\* None of __open_connection (AttributeError) or lets the error of
\* turbodbc.connect pass.  sql_utils: without connection information
\* read_query and check_sql_table print and return; the error of
\* turbodbc.connect is caught by the bare except around read_query, which
\* calls create_table, which connects again.
CheckSqlTableConnecting(variant, link, back, cols, pk, sent, frame, ids, granted, order) ==
    LET st0 == [cols |-> cols, pk |-> pk, stmts |-> sent, err |-> ""]
    IN IF link \in {"ok", "back"}
       THEN CheckSqlTableResult(variant, cols, pk, sent, frame, ids, granted, order)
       ELSE IF variant = "sql_RW"
       THEN [st0 EXCEPT !.err = IF link = "none" THEN "AttributeError"
                                ELSE "Error: connect"]
       ELSE IF link = "none" THEN st0
       ELSE IF ~back THEN [st0 EXCEPT !.err = "Error: connect"]
       ELSE CreateTable(variant, st0, frame, ids, granted)

\* the connection after check_sql_table
Reconnected(variant, link, back) ==
    IF variant = "sql_utils" /\ link = "down" /\ back THEN "back" ELSE link

(***************************************************************************)
(* correct_types                                                           *)
(***************************************************************************)
\* type_transform; "" where the dictionary has no entry (KeyError)
TypeTransform(t) ==
    CASE t \in {"nvarchar", "varchar", "text"} -> "object"
      [] t \in {"real", "decimal", "float", "money"} -> "float"
      [] t \in {"int", "int32", "bigint", "tinyint", "smallint"} -> "int64"
      [] t = "bit" -> "int"
      [] t \in {"datetime", "date", "time", "datetime2"} -> "datetime64[ns]"
      [] OTHER -> ""

\* numpy: dtype != 'name'
DTypeDiffers(dtype, name) ==
    ~(\/ dtype = name
      \/ (dtype = "float64" /\ name = "float")
      \/ (dtype = "int64" /\ name = "int"))

DestType(cols, name) ==
    LET hits == {i \in 1..Len(cols) : Lower(cols[i].name) = Lower(name)}
    IN IF hits = {} THEN "<missing>" ELSE cols[CHOOSE i \in hits : TRUE].type

\* what the values of a dataframe's text column look like: whole numbers
\* ('12'), numbers int() rejects (None, '1.5'), or other text ('abc')
TextKinds == {"digits", "decimals", "words"}

EmptyFrame == [cols |-> <<>>, rows |-> <<>>, maxlen |-> 0, text |-> "words"]

\* does Series.astype(target) return for a column of this dtype
AsType(dtype, target, text) ==
    CASE HasSub("object", target) -> TRUE
      [] HasSub("int", target) -> dtype # "object" \/ text = "digits"
      [] HasSub("float", target) -> dtype # "object" \/ text \in {"digits", "decimals"}
      [] OTHER -> dtype # "object"

\* the loop over the dataframe's columns; st = [frame, err, done]
RECURSIVE CorrectColumns(_, _, _, _)
CorrectColumns(variant, st, i, cols) ==
    IF i > Len(st.frame.cols) \/ st.err # "" \/ st.done THEN st
    ELSE LET col == st.frame.cols[i]
             target == TypeTransform(DestType(cols, col.name))
             cast1 == AsType(col.dtype, target, st.frame.text)
             cast2 == AsType(col.dtype, "float", st.frame.text)
             st2 ==
                IF DestType(cols, col.name) = "<missing>" THEN [st EXCEPT !.err = "KeyError"]
                ELSE IF ~DTypeDiffers(col.dtype, target) THEN st
                \* sql_RW: 'if verbose:' names no variable of __correct_types
                ELSE IF variant = "sql_RW" THEN [st EXCEPT !.err = "NameError"]
                ELSE IF cast1 THEN [st EXCEPT !.frame.cols[i].dtype = target]
                ELSE IF HasSub("int", target)
                     THEN IF cast2 THEN [st EXCEPT !.frame.cols[i].dtype = "float64"]
                          ELSE [st EXCEPT !.err = "ValueError"]
                ELSE [st EXCEPT !.frame = EmptyFrame, !.done = TRUE]
         IN CorrectColumns(variant, st2, i + 1, cols)

\* new_table = copy.copy(df), a deep copy: the columns correct_types assigns
\* land in new_table, the dataframe of the caller keeps its own
CallersFrameShared(frame, new_table) == new_table

CallersFrame(frame, new_table) == frame

CorrectTypesResult(variant, frame, cols) ==
    IF \E i \in 1..Len(cols) : TypeTransform(cols[i].type) = ""
    THEN [frame |-> frame, err |-> "KeyError", done |-> TRUE]
    ELSE CorrectColumns(variant, [frame |-> frame, err |-> "", done |-> FALSE],
                        1, cols)

(***************************************************************************)
(* The write call                                                          *)
(***************************************************************************)
Modes == {"append", "overwrite", "update", "skip"}

\* what a caller passes as write_mode / if_duplicated
ModeArgs == Modes \cup {"upsert"}

\* mutant: the mode is used as given
ValidModeAsGiven(variant, m) == m

\* a mode outside the four is replaced: 'Defaulting to "append"' (sql_RW
\* 179-182), 'Defaulting to "skip"' (sql_utils 475-478)
ValidMode(variant, m) ==
    IF m \in Modes THEN m
    ELSE IF variant = "sql_RW" THEN "append" ELSE "skip"

\* connecting: "ok" turbodbc.connect returns; "none" neither a dsn nor a
\* connection string is configured; "down" turbodbc.connect raises; "back"
\* it raised at the first attempt of the call and returns since
Conns == {"ok", "none", "down"}
Conditions == {"", "[id] = 1"}
TextLens == {5}

Frame(cols, rows, maxlen) ==
    [cols |-> cols, rows |-> rows, maxlen |-> maxlen, text |-> "words"]

HasObjectCol(cols) == \E i \in 1..Len(cols) : cols[i].dtype = "object"

\* a dataframe whose text column holds values of the given kind
TextFrame(cols, rows, maxlen, text) ==
    [Frame(cols, rows, maxlen) EXCEPT !.text = IF HasObjectCol(cols) THEN text ELSE @]

\* a table as an earlier call of the same engine created it
CreatedTable(variant, cols, ids) ==
    ParseCreate(CreateTableQuery(variant, cols, 5, ids).q)

(***************************************************************************)
(* load_data_to_sql.py: splitting a long text column into overflow columns *)
(* before the dataframe is written.  A value is modelled by its length, a  *)
(* piece of it by the slice [lo, hi) it is cut from.                       *)
(***************************************************************************)
nvarmax == 1600

MaxVals == 2
StrLens == {1, 1599, 1600, 1601, 3200, 3201, 4800, 5000}

NaN == [lo |-> 0, hi |-> 0]

SeqMax(lens) == CHOOSE m \in {lens[k] : k \in 1..Len(lens)} :
                   \A k \in 1..Len(lens) : lens[k] <= m

\* x[lo:hi] of a value of length len
Slice(len, lo, hi) == [lo |-> Min(lo, len), hi |-> Min(hi, len)]

\* mutant: the pieces start one character late
OverflowColumnLate(lens, i, endpt) ==
    [k \in 1..Len(lens) |->
        IF lens[k] <= i * nvarmax THEN NaN ELSE Slice(lens[k], i * nvarmax + 1, endpt)]

\* the column df[col + '_overflow' + str(i)]
OverflowColumn(lens, i, endpt) ==
    [k \in 1..Len(lens) |->
        IF lens[k] <= i * nvarmax THEN NaN ELSE Slice(lens[k], i * nvarmax, endpt)]

\* mutant: the original column is left as it was read
TruncatedColumnAsRead(lens, maxlen) ==
    [k \in 1..Len(lens) |-> Slice(lens[k], 0, lens[k])]

\* the truncated original column
TruncatedColumn(lens, maxlen) ==
    [k \in 1..Len(lens) |->
        IF maxlen >= nvarmax /\ ~(lens[k] <= nvarmax)
          THEN Slice(lens[k], 0, nvarmax)
          ELSE Slice(lens[k], 0, lens[k])]

\* the length create_table declares for a text column of these values: the
\* longest of them, times 1.2 (sql_RW 311-317)
DeclaredLength(col) ==
    NvarcharLen(SeqMax([k \in 1..Len(col) |-> col[k].hi - col[k].lo]))

NotRunning == [lens |-> <<>>, maxlen |-> 0, i |-> 0, overflow |-> <<>>,
               kept |-> <<>>, pos |-> "off"]

Columns == UNION {[1..n -> StrLens] : n \in 1..MaxVals}

\* for col in obj_cols: maxlen = ..., i = 1
EnterColumn(lens) == [lens |-> lens, maxlen |-> SeqMax(lens), i |-> 1,
                      overflow |-> <<>>, kept |-> <<>>, pos |-> "while"]

EngineUnchanged ==
    UNCHANGED <<open_cons, impl, conn, mode_arg, destCols, destPK, destRows, pc, df, write_mode,
                ID_cols, batch_size, condition, new_df, data_insert, data_update,
                part, batch_start, stmts, batches, err, runs, prev_err, base>>

\* one pass of the while loop
AddOverflow ==
    /\ script.pos = "while"
    /\ script.i * nvarmax <= script.maxlen
    /\ script' = [script EXCEPT
          !.overflow = Append(@, OverflowColumn(script.lens, script.i,
                                  Min((script.i + 1) * nvarmax, script.maxlen))),
          !.i = @ + 1]
    /\ EngineUnchanged

\* the while condition is false
LeaveLoop ==
    /\ script.pos = "while"
    /\ ~(script.i * nvarmax <= script.maxlen)
    /\ script' = [script EXCEPT !.pos = "truncate"]
    /\ EngineUnchanged

\* if maxlen >= nvarmax: truncate the original column
Truncate ==
    /\ script.pos = "truncate"
    /\ script' = [script EXCEPT !.kept = TruncatedColumn(script.lens, script.maxlen),
                                !.pos = "done"]
    /\ EngineUnchanged


DestBags == {b \in [Row -> 0..MaxDestRows] : BagSize(b) <= MaxDestRows}

\* connections opened and not closed: held by a frame of the call, or dropped
\* unclosed by a frame that has returned (closing them is left to the
\* finaliser of the connection object)
NoneOpen == [held |-> 0, dropped |-> 0]

Held(c, n) == [c EXCEPT !.held = @ + n]

\* the frame that held a connection returns without con.close()
Dropped(c, n) == [held |-> c.held - n, dropped |-> c.dropped + n]

\* the errors of cursor.execute
ExecuteErrors == {"DatabaseError: permission denied", "DatabaseError: syntax",
                  "DatabaseError: object exists"}

\* check_sql_table: the connection an exception leaves open. create_table of
\* sql_RW builds its query before it connects (309-353), the ALTER loop runs
\* between the connect and the close (sql_RW 554-591, sql_utils 312-353) and
\* so does cursor.execute in create_table (sql_RW 353-355, sql_utils 186-223)
HeldAfterCheck(link, cols, e) ==
    IF e = "" THEN 0
    ELSE IF e \in ExecuteErrors THEN 1
    ELSE IF link \notin {"ok", "back"} THEN 0
    ELSE IF cols = <<>> THEN 0
    ELSE 1

\* check_sql_table of sql_utils: read_query connects, the SELECT TOP 1 of a
\* table that is not there raises before con.close() (143-146) and the bare
\* except handles it (302-304)
DroppedByProbe(variant, link, cols) ==
    IF variant = "sql_utils" /\ link \in {"ok", "back"} /\ cols = <<>> THEN 1 ELSE 0

Idle ==
    /\ pc = "Idle"
    /\ df = EmptyFrame /\ new_df = EmptyFrame
    /\ mode_arg = "" /\ write_mode = "" /\ ID_cols = <<>>
    /\ batch_size = 0 /\ condition = ""
    /\ data_insert = <<>> /\ data_update = <<>>
    /\ part = "" /\ batch_start = 0
    /\ stmts = <<>> /\ batches = <<>>
    /\ err = "" /\ prev_err = "" /\ runs = 0
    /\ conn = "ok"
    /\ open_cons = NoneOpen

\* Before the first call the destination has no table "tbl", or holds one an
\* earlier call created for the base columns, with rows its constraint admits.
Init ==
    /\ script = NotRunning
    /\ impl \in {"sql_RW", "sql_utils"}
    /\ \/ destCols = <<>> /\ destPK = <<>> /\ destRows = EmptyBag
       \/ \E ids \in {<<>>, <<"id">>} :
            /\ destCols = CreatedTable(impl, BaseCols, ids).cols
            /\ destPK = CreatedTable(impl, BaseCols, ids).pk
            /\ destRows \in {b \in DestBags : Unique(b, destPK)}
    /\ base = destRows
    /\ Idle

\* write_to_sql, kwargs (sql_RW 176-184, sql_utils 471-480)
StartWrite(frames, keylists) ==
    /\ pc = "Idle"
    /\ \E f \in frames, m \in ModeArgs, k \in keylists, b \in BatchSizes,
          c \in Conditions :
         /\ m # "overwrite" => c = ""
         /\ df' = f
         /\ mode_arg' = m
         /\ write_mode' = ValidMode(impl, m)
         /\ ID_cols' = k
         /\ batch_size' = b
         /\ condition' = c
    /\ conn' \in Conns
    /\ pc' = "SchemaChecking"
    /\ runs' = 1
    /\ base' = destRows
    /\ UNCHANGED <<open_cons, script, impl, destCols, destPK, destRows, new_df, data_insert,
                   data_update, part, batch_start, stmts, batches, err, prev_err>>

\* mutant: the exception is reported and the call goes on
RaiseContinues(e) == /\ err' = e
                     /\ pc' = pc

\* an exception nothing catches ends write_to_sql
Raise(e) == /\ err' = e
            /\ pc' = "Failed"

\* check_sql_table returns or raises: r = [cols, pk, stmts, err]
CheckSqlTableReturns(r) ==
    /\ destCols' = r.cols
    /\ destPK' = r.pk
    /\ stmts' = r.stmts
    /\ IF r.err # "" THEN Raise(r.err)
       ELSE /\ pc' = "TypeCoercing"
            /\ err' = err

\* check_sql_table (sql_RW 493-592, sql_utils 296-354)
CheckSqlTable ==
    /\ pc = "SchemaChecking"
    /\ \E granted \in BOOLEAN, order \in Perms(NewCols(df.cols, destCols)),
          back \in BOOLEAN :
         /\ CheckSqlTableReturns(CheckSqlTableConnecting(impl, conn, back, destCols,
                                     destPK, stmts, df, ID_cols, granted, order))
         /\ conn' = Reconnected(impl, conn, back)
    /\ open_cons' = [held |-> HeldAfterCheck(conn, destCols, err'),
                     dropped |-> DroppedByProbe(impl, conn, destCols)]
    /\ UNCHANGED <<script, impl, mode_arg, destRows, df, write_mode, ID_cols, batch_size, condition,
                   new_df, data_insert, data_update, part, batch_start, batches,
                   runs, prev_err, base>>

\* correct_types (sql_RW 595-664, sql_utils 378-429)
CorrectTypes ==
    /\ pc = "TypeCoercing"
    /\ IF conn = "none"
       \* read_query returns None: sql_cols.set_index
       THEN Raise("AttributeError") /\ UNCHANGED <<new_df, df, stmts>>
       ELSE /\ LET r == CorrectTypesResult(impl, df, destCols)
               IN /\ new_df' = r.frame
                  /\ df' = CallersFrame(df, r.frame)
                  /\ IF r.err # "" THEN Raise(r.err)
                     ELSE /\ pc' = "Classifying"
                          /\ err' = err
            /\ stmts' = Append(stmts, Stmt("SELECT_TYPES", <<>>))
    /\ UNCHANGED <<open_cons, script, impl, conn, mode_arg, destCols, destPK, destRows, write_mode, ID_cols,
                   batch_size, condition, data_insert, data_update, part,
                   batch_start, batches, runs, prev_err, base>>

\* mutant: the keys are read and merged in every mode
ClassificationAlwaysMerges(frame, mode, ids, cols, rows) ==
    [insert |-> MergeLeftOnly(frame.rows, ids, rows),
     update |-> IF mode = "update" THEN MergeInner(frame.rows, ids, rows) ELSE <<>>,
     query |-> TRUE, err |-> ""]

\* the statements and the two partitions (sql_RW 215-245, sql_utils 498-525):
\* [insert, update, query, err]
Classification(frame, mode, ids, cols, rows) ==
    LET names == ColNamesOf(frame.cols)
        data_cols == SelectSeq(names, LAMBDA c : ~InSeq(c, ids))
        none == [insert |-> <<>>, update |-> <<>>, query |-> FALSE, err |-> ""]
    IN \* insert_statement: cols[0]
       IF Len(names) = 0 THEN [none EXCEPT !.err = "IndexError"]
       \* update_statement: data_cols[0]
       ELSE IF Len(ids) > 0 /\ Len(data_cols) = 0 THEN [none EXCEPT !.err = "IndexError"]
       ELSE IF mode \in {"append", "overwrite"} \/ Len(ids) = 0
       THEN [none EXCEPT !.insert = frame.rows]
       \* SELECT [k1], [k2] FROM tbl
       ELSE IF \E i \in 1..Len(ids) : Lower(ids[i]) \notin DestNames(cols)
       THEN [none EXCEPT !.query = TRUE, !.err = "DatabaseError: invalid column"]
       \* pd.merge(..., on=ID_cols)
       ELSE IF \E i \in 1..Len(ids) : ~InSeq(ids[i], names)
       THEN [none EXCEPT !.query = TRUE, !.err = "KeyError"]
       ELSE [insert |-> MergeLeftOnly(frame.rows, ids, rows),
             update |-> IF mode = "update" THEN MergeInner(frame.rows, ids, rows)
                        ELSE <<>>,
             query |-> TRUE, err |-> ""]

\* mutant: every mode clears the table
AfterClassifyClears(mode) == "Clearing"

\* if write_mode == 'overwrite': self.clear_table(...)
AfterClassify(mode) == IF mode = "overwrite" THEN "Clearing" ELSE "Writing"

\* the connection the classification leaves open: the one of read_query when
\* the key query raises (sql_RW 106-109, sql_utils 143-146), and the one
\* write_to_sql of sql_utils opens for the batches (537-541)
AfterKeyQuery(variant, e) ==
    IF e = "DatabaseError: invalid column" THEN 1
    ELSE IF e = "" /\ variant = "sql_utils" THEN 1
    ELSE 0

Classify ==
    /\ pc = "Classifying"
    /\ LET r == Classification(new_df, write_mode, ID_cols, destCols, destRows)
       IN /\ data_insert' = r.insert
          /\ data_update' = r.update
          /\ stmts' = IF r.query THEN Append(stmts, Stmt("SELECT_KEYS", <<>>)) ELSE stmts
          /\ IF r.err # "" THEN Raise(r.err) /\ UNCHANGED <<part, batch_start>>
             ELSE /\ err' = err
                  /\ pc' = AfterClassify(write_mode)
                  /\ IF pc' = "Clearing"
                     THEN UNCHANGED <<part, batch_start>>
                     ELSE part' = "insert" /\ batch_start' = 0
    /\ open_cons' = Held(open_cons, AfterKeyQuery(impl, err'))
    /\ UNCHANGED <<script, impl, conn, mode_arg, destCols, destPK, destRows, df, write_mode, ID_cols,
                   batch_size, condition, new_df, batches, runs, prev_err, base>>

\* DELETE FROM tbl [WHERE condition]
DeleteRows(rows, cond) ==
    [r \in Row |-> IF cond = "" \/ r.id = 1 THEN 0 ELSE rows[r]]

\* clear_table (sql_RW 359-399, sql_utils 251-271)
ClearTable ==
    /\ pc = "Clearing"
    /\ destRows' = DeleteRows(destRows, condition)
    /\ stmts' = Append(stmts, Stmt("DELETE", <<>>))
    /\ pc' = "Writing"
    /\ part' = "insert"
    /\ batch_start' = 0
    /\ UNCHANGED <<open_cons, script, impl, conn, mode_arg, destCols, destPK, df, write_mode, ID_cols, batch_size,
                   condition, new_df, data_insert, data_update, batches, err, runs,
                   prev_err, base>>

Partition == IF part = "insert" THEN data_insert ELSE data_update
StmtKind == IF part = "insert" THEN "INSERT" ELSE "UPDATE"

TableName(variant) == IF variant = "sql_RW" THEN TableNameRW ELSE TableNameUtils

\* ', [c]' for the columns after the first
RECURSIVE MoreColumns(_, _, _)
MoreColumns(cols, sep, mark) ==
    IF cols = <<>> THEN <<>>
    ELSE <<sep, Bracket(Head(cols))>> \o mark \o MoreColumns(Tail(cols), sep, mark)

\* ',?' * n
RECURSIVE Markers(_)
Markers(n) == IF n <= 0 THEN <<>> ELSE <<",", "?">> \o Markers(n - 1)

\* insert_statement (sql_RW 756-760, sql_utils 630-635)
InsertStatement(variant, cols) ==
    <<"INSERT INTO">> \o TableName(variant) \o <<"(", Bracket(cols[1])>>
       \o MoreColumns(Tail(cols), ",", <<>>)
       \o <<")", "VALUES", "(", "?">> \o Markers(Len(cols) - 1) \o <<")">>

\* update_statement (sql_RW 782-790, sql_utils 655-664)
UpdateStatement(variant, cols, ids) ==
    LET data_cols == SelectSeq(cols, LAMBDA c : ~InSeq(c, ids))
    IN <<"UPDATE">> \o TableName(variant) \o <<"SET", Bracket(data_cols[1]), "=", "?">>
          \o MoreColumns(Tail(data_cols), ",", <<"=", "?">>)
          \o <<"WHERE", "(", Bracket(ids[1]), "=", "?", ")">>
          \o MoreColumns(Tail(ids), "AND (", <<"=", "?", ")">>)

\* mutant: the columns are bound as the dataframe holds them
UpdateColsAsHeld(columns, ids) == columns

\* update_cols: the columns outside ID_cols, then ID_cols (sql_RW 262-266,
\* sql_utils 555-556)
UpdateCols(columns, ids) ==
    SelectSeq(columns, LAMBDA c : ~InSeq(c, ids)) \o ids

\* the statement of a partition and the columns bound to its markers
StatementText(p) ==
    IF p = "insert" THEN InsertStatement(impl, ColNamesOf(new_df.cols))
    ELSE UpdateStatement(impl, ColNamesOf(new_df.cols), ID_cols)

BoundCols(p) ==
    IF p = "insert" THEN ColNamesOf(new_df.cols)
    ELSE UpdateCols(ColNamesOf(new_df.cols), ID_cols)

\* mutant: every batch runs to the end of the data
BatchEndOfData(start, size, n) == n

\* batch_end = min(batch_start + batch_size, len(df))
BatchEnd(start, size, n) == Min(start + size, n)

\* mutant: every batch is cut from the head of the partition
BatchFromHead == SubSeq(Partition, 1,
                        BatchEnd(batch_start, batch_size, Len(Partition)) - batch_start)

\* a bound of an iloc slice of n rows: counted from the end when negative,
\* clipped to the rows there are
SliceBound(i, n) == IF i < 0 THEN (IF i + n < 0 THEN 0 ELSE i + n) ELSE Min(i, n)

\* df.iloc[batch_start:batch_end]
Batch == SubSeq(Partition, SliceBound(batch_start, Len(Partition)) + 1,
                SliceBound(BatchEnd(batch_start, batch_size, Len(Partition)),
                           Len(Partition)))

\* mutant: the start of the next batch is never moved
NextStartStuck(start, size) == start

\* batch_start = batch_start + batch_size
NextStart(start, size) == start + size

\* con, cursor = self.__open_connection() ahead of the loop of sql_RW (709);
\* sql_utils is handed the connection of write_to_sql
OpenedForLoop(variant) ==
    IF variant = "sql_RW" /\ SelectSeq(batches, LAMBDA b : b.part = part) = <<>>
    THEN 1 ELSE 0

\* batch_write_data returns: sql_RW has no con.close() (736)
LoopReturns(variant, data) ==
    IF variant = "sql_RW" /\ data # <<>> THEN Dropped(open_cons, 1) ELSE open_cons

\* batch_write_data, one iteration of the loop whose executemanycolumns returns
\* (sql_RW 710-735, sql_utils 590-610)
ExecBatch ==
    /\ pc = "Writing"
    /\ batch_start < Len(Partition)
    /\ Accepted(part, destRows, Batch, ID_cols, destPK) = Len(Batch)
    /\ destRows' = ExecRows(part, destRows, Batch, ID_cols)
    /\ stmts' = Append(stmts, Stmt(StmtKind, StatementText(part)))
    /\ batches' = Append(batches,
                         [part |-> part, lo |-> batch_start,
                          hi |-> BatchEnd(batch_start, batch_size, Len(Partition)),
                          rows |-> Batch, cols |-> BoundCols(part)])
    /\ batch_start' = NextStart(batch_start, batch_size)
    /\ open_cons' = Held(open_cons, OpenedForLoop(impl))
    /\ UNCHANGED <<script, impl, conn, mode_arg, destCols, destPK, pc, df, write_mode, ID_cols, batch_size,
                   condition, new_df, data_insert, data_update, part, err, runs,
                   prev_err, base>>

\* the rows of a failed batch that stay applied: under autocommit (sql_RW 422)
\* any accepted prefix, without the commit of sql_utils 604 none
KeptOnFailure(variant, n, accepted) ==
    IF variant = "sql_RW" THEN 0..Min(accepted, n - 1) ELSE {0}

\* mutant: the exception is swallowed and the loop goes on
BatchFailureSwallowed(e) ==
    /\ err' = e
    /\ pc' = pc
    /\ batch_start' = batch_start + batch_size

\* what the caller of write_to_sql catches when executemanycolumns raises: no
\* try statement stands between the two, so it is the driver's own exception
\* with the driver's message, and batch_start and batch_end are locals that
\* are gone with the frame
Surfaced(e, lo, hi) == [class |-> "turbodbc.exceptions.DatabaseError",
                        message |-> e]

\* the exception of executemanycolumns is caught nowhere: it leaves the loop,
\* batch_write_data and write_to_sql
BatchFailure(e) ==
    /\ Raise(e)
    /\ batch_start' = batch_start

\* batch_write_data, an iteration whose executemanycolumns raises
FailBatch ==
    /\ pc = "Writing"
    /\ batch_start < Len(Partition)
    /\ \E n \in KeptOnFailure(impl, Len(Batch),
                              Accepted(part, destRows, Batch, ID_cols, destPK)) :
         destRows' = ExecRows(part, destRows, SubSeq(Batch, 1, n), ID_cols)
    /\ stmts' = Append(stmts, Stmt(StmtKind, StatementText(part)))
    /\ BatchFailure("DatabaseError: execute")
    /\ open_cons' = Held(open_cons, OpenedForLoop(impl))
    /\ UNCHANGED <<script, impl, conn, mode_arg, destCols, destPK, df, write_mode, ID_cols, batch_size,
                   condition, new_df, data_insert, data_update, part, batches,
                   runs, prev_err, base>>

\* the insert loop ends; write_to_sql goes on to the update partition
EndInsert ==
    /\ pc = "Writing"
    /\ part = "insert"
    /\ batch_start >= Len(data_insert)
    /\ part' = "update"
    /\ batch_start' = 0
    /\ open_cons' = LoopReturns(impl, data_insert)
    /\ UNCHANGED <<script, impl, conn, mode_arg, destCols, destPK, destRows, pc, df, write_mode, ID_cols,
                   batch_size, condition, new_df, data_insert, data_update, stmts,
                   batches, err, runs, prev_err, base>>

\* the update loop ends; write_to_sql returns
EndUpdate ==
    /\ pc = "Writing"
    /\ part = "update"
    /\ batch_start >= Len(data_update)
    /\ pc' = "Done"
    /\ open_cons' = IF impl = "sql_utils" THEN Held(open_cons, -1)
                    ELSE LoopReturns(impl, data_update)
    /\ UNCHANGED <<script, impl, conn, mode_arg, destCols, destPK, destRows, df, write_mode, ID_cols,
                   batch_size, condition, new_df, data_insert, data_update, part,
                   batch_start, stmts, batches, err, runs, prev_err, base>>

\* the caller runs the same call a second time after it returned
Rerun ==
    /\ pc = "Done"
    /\ runs = 1
    /\ runs' = runs + 1
    /\ prev_err' = err
    /\ base' = destRows
    /\ pc' = "SchemaChecking"
    /\ new_df' = EmptyFrame
    /\ data_insert' = <<>> /\ data_update' = <<>>
    /\ part' = "" /\ batch_start' = 0
    /\ stmts' = <<>> /\ batches' = <<>>
    /\ err' = ""
    /\ open_cons' = NoneOpen
    /\ UNCHANGED <<script, impl, conn, mode_arg, destCols, destPK, destRows, df, write_mode, ID_cols,
                   batch_size, condition>>

Steps ==
    \/ CheckSqlTable
    \/ CorrectTypes
    \/ Classify
    \/ ClearTable
    \/ ExecBatch
    \/ FailBatch
    \/ EndInsert
    \/ EndUpdate
    \/ Rerun

\* Spec: the rows vary, the columns are the base columns
Frames == {Frame(BaseCols, rows, 0) : rows \in RowSeqs(MaxRows)}
KeyLists == {<<>>, <<"id">>}

Next == StartWrite(Frames, KeyLists) \/ Steps

Spec == Init /\ [][Next]_vars

\* SpecSchema: the columns and the key lists vary, the rows are few
NoteCol == Col("note", "object")
CapNoteCol == Col("Note", "object")
ColumnLists == {BaseCols, Append(BaseCols, NoteCol), Append(BaseCols, CapNoteCol),
                Append(BaseCols, Col("Note", "int64")),
                Append(BaseCols, Col("note", "category")),
                Append(BaseCols, Col("note", "float64"))}
SchemaKeyLists == {<<>>, <<"id">>, <<"id", "val">>, <<"val", "id">>}
SchemaFrames == {TextFrame(cols, rows, n, text) :
                   cols \in ColumnLists, rows \in RowSeqs(1), n \in TextLens,
                   text \in TextKinds}

InitSchema ==
    /\ script = NotRunning
    /\ impl \in {"sql_RW", "sql_utils"}
    /\ \/ destCols = <<>> /\ destPK = <<>>
       \/ \E cols \in ColumnLists, ids \in {<<>>, <<"id">>} :
            /\ CreatedTable(impl, cols, ids).ok
            /\ destCols = CreatedTable(impl, cols, ids).cols
            /\ destPK = CreatedTable(impl, cols, ids).pk
    /\ destRows = EmptyBag
    /\ base = destRows
    /\ Idle

NextSchema == StartWrite(SchemaFrames, SchemaKeyLists) \/ Steps

SpecSchema == InitSchema /\ [][NextSchema]_vars

\* SpecTypes: one more column of every dtype, text of several lengths, written
\* to a destination that has no table or the table of the base columns
LenValues == {1, 2, 4, 5, 6, 3333, 3334, 5000}
TypedFrames == {TextFrame(Append(BaseCols, Col("note", t)), rows,
                          IF t = "object" THEN n ELSE 0, "words") :
                  t \in DTypes, rows \in RowSeqs(1), n \in LenValues}

InitTypes ==
    /\ script = NotRunning
    /\ impl \in {"sql_RW", "sql_utils"}
    /\ \/ destCols = <<>> /\ destPK = <<>>
       \/ /\ destCols = CreatedTable(impl, BaseCols, <<>>).cols
          /\ destPK = <<>>
    /\ destRows = EmptyBag
    /\ base = destRows
    /\ Idle

NextTypes == StartWrite(TypedFrames, {<<>>}) \/ Steps

SpecTypes == InitTypes /\ [][NextTypes]_vars

\* SpecBatch: batch_write_data on its own, entered as an append call enters it
\* for a dataframe of up to MaxPart rows and an existing table without key
InitBatch ==
    /\ script = NotRunning
    /\ impl \in {"sql_RW", "sql_utils"}
    /\ destCols = CreatedTable(impl, BaseCols, <<>>).cols
    /\ destPK = <<>>
    /\ destRows = EmptyBag
    /\ base = destRows
    /\ pc = "Writing"
    /\ df \in {Frame(BaseCols, rows, 0) : rows \in RowSeqs(MaxPart)}
    /\ new_df = df
    /\ mode_arg = "append" /\ write_mode = "append" /\ ID_cols = <<>> /\ condition = ""
    /\ batch_size \in (1..MaxPart) \cup {DefaultBatchSize}
    /\ data_insert = df.rows /\ data_update = <<>>
    /\ part = "insert" /\ batch_start = 0
    /\ stmts = <<ProbeStmt(impl), Stmt("SELECT_TYPES", <<>>)>>
    /\ batches = <<>>
    /\ err = "" /\ prev_err = "" /\ runs = 1
    /\ conn = "ok"
    /\ open_cons = Held(NoneOpen, AfterKeyQuery(impl, ""))

NextBatch == ExecBatch \/ FailBatch \/ EndInsert \/ EndUpdate

SpecBatch == InitBatch /\ [][NextBatch]_vars

\* SpecOrder: classification and writing on their own, for a dataframe of up
\* to MaxKeyRows rows that may repeat a key, a key list and a table without
\* PRIMARY KEY constraint
MaxKeyRows == 3

InitOrder ==
    /\ script = NotRunning
    /\ impl \in {"sql_RW", "sql_utils"}
    /\ destCols = CreatedTable(impl, BaseCols, <<>>).cols
    /\ destPK = <<>>
    /\ destRows \in DestBags
    /\ base = destRows
    /\ pc = "Classifying"
    /\ df \in {Frame(BaseCols, rows, 0) : rows \in RowSeqs(MaxKeyRows)}
    /\ new_df = df
    /\ mode_arg \in {"update", "skip"} /\ write_mode = mode_arg
    /\ ID_cols = <<"id">> /\ condition = ""
    /\ batch_size \in {1, DefaultBatchSize}
    /\ data_insert = <<>> /\ data_update = <<>>
    /\ part = "" /\ batch_start = 0
    /\ stmts = <<ProbeStmt(impl), Stmt("SELECT_TYPES", <<>>)>>
    /\ batches = <<>>
    /\ err = "" /\ prev_err = "" /\ runs = 1
    /\ conn = "ok"
    /\ open_cons = NoneOpen

NextOrder == Classify \/ ExecBatch \/ FailBatch \/ EndInsert \/ EndUpdate

SpecOrder == InitOrder /\ [][NextOrder]_vars

\* SpecLoop: the loop of batch_write_data for any integer batch_size, which
\* write_to_sql takes from the caller unchecked (sql_RW 183); the interpreter
\* keeps running the loop, and the log of batches is cut off at MaxBatches
MaxBatches == 4
LoopBatchSizes == {-1, 0, 1, 2}

InitLoop ==
    /\ script = NotRunning
    /\ impl \in {"sql_RW", "sql_utils"}
    /\ destCols = CreatedTable(impl, BaseCols, <<>>).cols
    /\ destPK = <<>>
    /\ destRows = EmptyBag
    /\ base = destRows
    /\ pc = "Writing"
    /\ df \in {Frame(BaseCols, rows, 0) : rows \in RowSeqs(MaxRows)}
    /\ new_df = df
    /\ mode_arg = "append" /\ write_mode = "append" /\ ID_cols = <<>> /\ condition = ""
    /\ batch_size \in LoopBatchSizes
    /\ data_insert = df.rows /\ data_update = <<>>
    /\ part = "insert" /\ batch_start = 0
    /\ stmts = <<ProbeStmt(impl), Stmt("SELECT_TYPES", <<>>)>>
    /\ batches = <<>>
    /\ err = "" /\ prev_err = "" /\ runs = 1
    /\ conn = "ok"
    /\ open_cons = Held(NoneOpen, AfterKeyQuery(impl, ""))

ExecBatchLogged == Len(batches) < MaxBatches /\ ExecBatch

NextLoop == ExecBatchLogged \/ FailBatch \/ EndInsert \/ EndUpdate

SpecLoop == InitLoop /\ [][NextLoop]_vars /\ WF_vars(NextLoop)

\* SpecOverflow: the splitting loop of load_data_to_sql on one text column
InitOverflow ==
    /\ script \in {EnterColumn(lens) : lens \in Columns}
    /\ impl = "sql_RW"
    /\ destCols = <<>> /\ destPK = <<>> /\ destRows = EmptyBag
    /\ base = destRows
    /\ Idle

NextOverflow == AddOverflow \/ LeaveLoop \/ Truncate

SpecOverflow == InitOverflow /\ [][NextOverflow]_vars

(***************************************************************************)
(* Properties                                                              *)
(***************************************************************************)
HasKey == ID_cols # <<>>

\* the partitions have been computed in this run
Classified == pc \in {"Clearing", "Writing", "Done"} \/ (pc = "Failed" /\ part # "")

CountKind(log, kind) == Len(SelectSeq(log, LAMBDA x : x.kind = kind))
BatchesOf(p) == SelectSeq(batches, LAMBDA b : b.part = p)

\* C1: in update mode with a non-empty primary key, rows whose key is in the
\* destination go to data_update, the others to data_insert, and the two
\* partitions together are the dataset as a multiset
C1_UpdatePartitionIsDataset ==
    (write_mode = "update" /\ HasKey /\ Classified) =>
        /\ \A i \in 1..Len(data_update) : Matches(data_update[i], ID_cols, base) > 0
        /\ \A i \in 1..Len(data_insert) : Matches(data_insert[i], ID_cols, base) = 0
        /\ BagPlus(BagOfSeq(data_insert), BagOfSeq(data_update)) = BagOfSeq(new_df.rows)

\* C2: in skip mode with a non-empty primary key, data_update is empty,
\* data_insert is the dataset without the rows whose key is in the destination
\* (as a multiset), no UPDATE is issued, and a call that returns has added
\* exactly the rows of data_insert
C2_SkipPartition ==
    (write_mode = "skip" /\ HasKey /\ Classified) =>
        /\ data_update = <<>>
        /\ BagOfSeq(data_insert) =
             BagOfSeq(SelectSeq(new_df.rows, LAMBDA r : Matches(r, ID_cols, base) = 0))
        /\ CountKind(stmts, "UPDATE") = 0
        /\ pc = "Done" => destRows = BagPlus(base, BagOfSeq(data_insert))

\* a skip call returned after it dropped a matching row and inserted another
C2_Witness ==
    /\ write_mode = "skip" /\ HasKey /\ pc = "Done"
    /\ Len(data_insert) > 0
    /\ Len(data_insert) < Len(df.rows)

\* C3: running write(D, mode=update) a second time leaves the destination as
\* the first run left it
C3_UpdateTwiceSameAsOnce ==
    (write_mode = "update" /\ HasKey /\ runs = 2 /\ pc = "Done") => destRows = base

\* what the destination holds before the first batch of a run
BeforeWriting ==
    IF write_mode = "overwrite" THEN DeleteRows(base, condition) ELSE base

AppliedRows(p) ==
    LET m == BatchesOf(p)
        data == IF p = "insert" THEN data_insert ELSE data_update
    IN SubSeq(data, 1, IF m = <<>> THEN 0 ELSE m[Len(m)].hi)

AfterBatches ==
    ExecRows("update", ExecRows("insert", BeforeWriting, AppliedRows("insert"), ID_cols),
             AppliedRows("update"), ID_cols)

\* the i-th batch of a partition of n rows
NthBatch(p, i, n) ==
    [part |-> p, lo |-> (i - 1) * batch_size, hi |-> Min(i * batch_size, n),
     rows |-> SubSeq(IF p = "insert" THEN data_insert ELSE data_update,
                     (i - 1) * batch_size + 1, Min(i * batch_size, n)),
     cols |-> BoundCols(p)]

Ceil(n, b) == (n + b - 1) \div b

\* C4: when the execution of a batch fails, the call ends there: the batches
\* executed are exactly those before the failed one, in order, they stay
\* applied in the destination, and the failed batch is the last statement sent
C4_StopAtFirstFailure ==
    (err = "DatabaseError: execute") =>
        /\ pc = "Failed"
        /\ stmts[Len(stmts)].kind = StmtKind
        /\ CountKind(stmts, "INSERT") + CountKind(stmts, "UPDATE") = Len(batches) + 1
        /\ batch_start = Len(BatchesOf(part)) * batch_size
        /\ \A i \in 1..Len(BatchesOf("insert")) :
             batches[i] = NthBatch("insert", i, Len(data_insert))
        /\ part = "insert" => BatchesOf("update") = <<>>
        /\ part = "update" =>
             /\ Len(BatchesOf("insert")) = Ceil(Len(data_insert), batch_size)
             /\ \A i \in 1..Len(BatchesOf("update")) :
                  batches[Len(BatchesOf("insert")) + i]
                    = NthBatch("update", i, Len(data_update))
        /\ \E n \in 0..(Len(Batch) - 1) :
             destRows = ExecRows(part, AfterBatches, SubSeq(Batch, 1, n), ID_cols)

\* a batch failed after an earlier batch of the same call was executed
C4_Witness ==
    /\ err = "DatabaseError: execute"
    /\ Len(batches) >= 1
    /\ batch_start + batch_size < Len(Partition)

\* the sizes of the batches executed for a partition of n rows
BatchSizesOK(p, n) ==
    LET m == BatchesOf(p)
    IN /\ Len(m) = Ceil(n, batch_size)
       /\ \A i \in 1..Len(m) :
            m[i].hi - m[i].lo =
               IF i < Len(m) \/ n % batch_size = 0 THEN batch_size ELSE n % batch_size

\* C5: a partition of N rows written with batch size B >= 1 is executed as
\* ceil(N/B) batches of B rows, the last of N mod B rows when B does not divide
\* N; no batch for N = 0
C5_BatchCount ==
    /\ ((pc = "Writing" /\ part = "update") \/ pc = "Done") =>
          BatchSizesOK("insert", Len(data_insert))
    /\ pc = "Done" => BatchSizesOK("update", Len(data_update))

\* a partition was written as several batches, the last one shorter
C5_Witness ==
    /\ pc = "Done"
    /\ Len(batches) >= 2
    /\ batches[Len(batches)].hi - batches[Len(batches)].lo < batch_size
    /\ batch_size > 1

\* the statements this step sent
NewStmts ==
    IF Len(stmts') >= Len(stmts) /\ SubSeq(stmts', 1, Len(stmts)) = stmts
    THEN SubSeq(stmts', Len(stmts) + 1, Len(stmts'))
    ELSE stmts'

IsDDL(kind) == kind \notin {"SELECT_COLUMNS", "SELECT_TOP1", "SELECT_TYPES",
                            "SELECT_KEYS", "DELETE", "INSERT", "UPDATE"}

\* C6: no step of any call removes a column of the destination or changes the
\* name, type, length or nullability of an existing column, nor the key of an
\* existing table; a CREATE is sent only while the table is absent and an
\* ALTER only to an existing table, and a column an ALTER adds was missing
C6_AdditiveOnly ==
    [][ /\ Len(destCols') >= Len(destCols)
        /\ SubSeq(destCols', 1, Len(destCols)) = destCols
        /\ destCols # <<>> => destPK' = destPK
        /\ \A i \in 1..Len(NewStmts) :
             /\ IsDDL(NewStmts[i].kind) => NewStmts[i].kind \in {"CREATE", "ALTER"}
             /\ NewStmts[i].kind = "CREATE" =>
                  /\ destCols = <<>>
                  /\ At(Strip(NewStmts[i].q), 1) = "CREATE TABLE"
             /\ NewStmts[i].kind = "ALTER" =>
                  /\ destCols # <<>>
                  /\ At(Strip(NewStmts[i].q), 1) = "ALTER TABLE"
                  /\ "ADD" \in {NewStmts[i].q[j] : j \in 1..Len(NewStmts[i].q)}
        /\ \A j \in (Len(destCols) + 1)..Len(destCols') :
             destCols # <<>> => Lower(destCols'[j].name) \notin DestNames(destCols)
      ]_vars

\* C7: an overwrite call sends exactly one DELETE, after the schema check and
\* the type correction and before any INSERT, and the first batch finds the
\* destination without the rows the condition selects; the other modes send
\* no DELETE
C7_ClearOnceBeforeInsert ==
    /\ write_mode # "overwrite" => CountKind(stmts, "DELETE") = 0
    /\ write_mode = "overwrite" =>
         /\ CountKind(stmts, "DELETE") = IF Classified /\ pc # "Clearing" THEN 1 ELSE 0
         /\ \A i \in 1..Len(stmts) : stmts[i].kind = "DELETE" =>
              /\ \E j \in 1..(i - 1) : stmts[j] = ProbeStmt(impl) \/ stmts[j].kind = "CREATE"
              /\ \E j \in 1..(i - 1) : stmts[j].kind = "SELECT_TYPES"
              /\ \A j \in 1..(i - 1) : stmts[j].kind \notin {"INSERT", "UPDATE"}
         /\ \A i \in 1..Len(stmts) : stmts[i].kind = "INSERT" =>
              \E j \in 1..(i - 1) : stmts[j].kind = "DELETE"
         /\ (pc = "Writing" /\ batches = <<>>) => destRows = DeleteRows(base, condition)

\* an overwrite call with a condition returned after it deleted and inserted
C7_Witness ==
    /\ write_mode = "overwrite" /\ pc = "Done"
    /\ condition # ""
    /\ BagSize(base) > BagSize(DeleteRows(base, condition))
    /\ CountKind(stmts, "INSERT") >= 1

\* the dataset holds a row with the primary key of r (the whole row when the
\* call names no key)
InDataset(r) ==
    \E i \in 1..Len(df.rows) :
       IF HasKey THEN KeyOf(df.rows[i], ID_cols) = KeyOf(r, ID_cols) ELSE df.rows[i] = r

\* C8: in append, update and skip mode every row of the destination whose
\* key is not in the dataset is there as often as before the call, at every
\* point of the call, and append and skip never change or remove any row
C8_NoDeleteByAbsence ==
    (write_mode \in {"append", "update", "skip"}) =>
        \A r \in Row :
           /\ ~InDataset(r) => destRows[r] = base[r]
           /\ (write_mode # "update" \/ ~HasKey) => destRows[r] >= base[r]

\* an update call returned after it updated a row, and the destination held
\* another row whose key is not in the dataset
C8_Witness ==
    /\ write_mode = "update" /\ HasKey /\ pc = "Done"
    /\ CountKind(stmts, "UPDATE") >= 1
    /\ destRows # base
    /\ \E r \in Row : base[r] > 0 /\ ~InDataset(r)

NotNullCols(cols) ==
    SelectSeq(ColNamesOf(cols), LAMBDA c : \E i \in 1..Len(cols) :
                                              cols[i].name = c /\ cols[i].notnull)

\* C9: a CREATE statement the call sends declares NOT NULL for exactly the
\* primary-key columns and holds one PRIMARY KEY clause listing the key
\* columns in the order of ID_cols
C9_CreateDeclaresKey ==
    \A i \in 1..Len(stmts) : (stmts[i].kind = "CREATE" /\ HasKey) =>
       LET parsed == ParseCreate(stmts[i].q)
       IN /\ parsed.ok
          /\ \A c \in ColNames :
               InSeq(c, NotNullCols(parsed.cols)) <=> InSeq(c, ID_cols)
          /\ Len(SelectSeq(stmts[i].q, LAMBDA t : t = "PRIMARY KEY(")) = 1
          /\ parsed.pk = ID_cols

\* C10: a CREATE the destination rejects for lack of privilege does not end
\* the call with an error
C10_RejectedCreateNotRaised ==
    \A i \in 1..Len(stmts) :
       (stmts[i].kind = "CREATE" /\ destCols = <<>>) =>
          ~(pc = "Failed" /\ err = "DatabaseError: permission denied")

\* C11: a dataframe column whose dtype has no SQL type is left out and the
\* schema check goes on: no ALTER or CREATE the destination cannot read is
\* sent for it and the call does not end with the destination's syntax error
C11_UnmappedColumnSkipped ==
    /\ \A i \in 1..Len(stmts) :
         /\ stmts[i].kind = "ALTER" => ParseAlter(stmts[i].q).ok
         /\ stmts[i].kind = "CREATE" => ParseCreate(stmts[i].q).ok
    /\ err # "DatabaseError: syntax"

\* the columns of the dataframe whose dtype differs from the destination's
Mismatched(frame, cols) ==
    {i \in 1..Len(frame.cols) :
        /\ DestType(cols, frame.cols[i].name) # "<missing>"
        /\ DTypeDiffers(frame.cols[i].dtype,
                        TypeTransform(DestType(cols, frame.cols[i].name)))}

TargetOf(i) == TypeTransform(DestType(destCols, df.cols[i].name))

\* the cast to the destination's type fails, the column is an integer column
\* in the destination and the cast to float succeeds
FallsBack(i) ==
    /\ ~AsType(df.cols[i].dtype, TargetOf(i), df.text)
    /\ HasSub("int", TargetOf(i))
    /\ AsType(df.cols[i].dtype, "float", df.text)

\* neither the cast to the destination's type nor the fallback succeeds
CannotCast(i) ==
    /\ ~AsType(df.cols[i].dtype, TargetOf(i), df.text)
    /\ ~(HasSub("int", TargetOf(i)) /\ AsType(df.cols[i].dtype, "float", df.text))

TypesCorrected == CountKind(stmts, "SELECT_TYPES") = 1

\* C12: once the types are corrected, a column that only the float cast
\* accepts is float64 in the dataframe to write and the call goes on; when a
\* column accepts no cast the call writes nothing and does not return
C12_CastFallback ==
    TypesCorrected =>
        /\ (\A i \in Mismatched(df, destCols) : ~CannotCast(i)) =>
              \A i \in Mismatched(df, destCols) : FallsBack(i) =>
                 /\ err \notin {"NameError", "ValueError"}
                 /\ new_df.cols[i].dtype = "float64"
        /\ (\E i \in Mismatched(df, destCols) : CannotCast(i)) =>
              /\ pc \notin {"Clearing", "Writing", "Done"}
              /\ destRows = base
              /\ \A k \in {"DELETE", "INSERT", "UPDATE"} : CountKind(stmts, k) = 0

\* the first connection of the call was not made
ConnectFailed == conn \in {"none", "down", "back"}

\* C13: when the call has no connection information or its connection is
\* refused, the call ends in the schema check or the type correction without
\* a CREATE, ALTER, DELETE, INSERT or UPDATE sent
C13_ConnectionFailureAborts ==
    (ConnectFailed /\ runs = 1) =>
        /\ pc \in {"SchemaChecking", "TypeCoercing", "Failed"}
        /\ \A k \in {"CREATE", "ALTER", "DELETE", "INSERT", "UPDATE"} :
             CountKind(stmts, k) = 0
        /\ destRows = base

DefaultMode == IF impl = "sql_RW" THEN "append" ELSE "skip"

\* C14 (as the code has it): a call given a mode outside the four runs as an
\* append call in sql_RW and as a skip call in sql_utils: it checks the
\* schema and writes the rows that mode writes
C14_InvalidModeDefaults ==
    (mode_arg \notin Modes /\ runs >= 1) =>
        /\ write_mode = DefaultMode
        /\ CountKind(stmts, "DELETE") = 0 /\ CountKind(stmts, "UPDATE") = 0
        /\ (Classified /\ (impl = "sql_RW" \/ ~HasKey)) =>
              data_insert = new_df.rows /\ CountKind(stmts, "SELECT_KEYS") = 0
        /\ (Classified /\ impl = "sql_utils" /\ HasKey) =>
              BagOfSeq(data_insert) =
                 BagOfSeq(SelectSeq(new_df.rows, LAMBDA r : Matches(r, ID_cols, base) = 0))
        /\ pc = "Done" => destRows = BagPlus(base, BagOfSeq(data_insert))

\* a call with an invalid mode returned after it wrote rows
C14_Witness ==
    /\ mode_arg \notin Modes /\ pc = "Done"
    /\ CountKind(stmts, "INSERT") >= 1
    /\ destRows # base

\* C14 (as the specification has it): a call given a mode outside the four
\* changes no schema and writes no row
C14_InvalidModeFailsFast ==
    (mode_arg \notin Modes /\ runs >= 1) =>
        /\ destRows = base
        /\ \A k \in {"CREATE", "ALTER", "DELETE", "INSERT", "UPDATE"} :
             CountKind(stmts, k) = 0

\* the column definitions a CREATE or ALTER statement holds
DefinedCols(stmt) ==
    IF stmt.kind = "CREATE" THEN ParseCreate(stmt.q).cols
    ELSE IF stmt.kind = "ALTER" /\ ParseAlter(stmt.q).ok THEN <<ParseAlter(stmt.q).col>>
    ELSE <<>>

\* the text columns every CREATE and ALTER of this call declares have length len
TextDeclared(len) ==
    \A i \in 1..Len(stmts) : \A j \in 1..Len(DefinedCols(stmts[i])) :
       DefinedCols(stmts[i])[j].type \in {"nvarchar", "varchar"} =>
          DefinedCols(stmts[i])[j].len = len

ListedType(dtype) ==
    CASE dtype = "int64" -> "bigint"
      [] dtype = "float64" -> "float"
      [] dtype = "object" -> "nvarchar"
      [] dtype = "datetime64[ns]" -> "datetime"
      [] dtype = "bool" -> "int"
      [] OTHER -> ""

\* C16: in sql_RW every column of one of the five dtypes gets a column
\* definition of the listed SQL type, in CREATE and in ALTER ADD: building the
\* statement does not fail, every definition sent has the listed type, and
\* after the schema check the destination has the column with that type
C16_ForwardTypeMapping ==
    (impl = "sql_RW" /\ runs >= 1) =>
        /\ err # "TypeError"
        /\ \A i \in 1..Len(stmts) : \A j \in 1..Len(DefinedCols(stmts[i])) :
             \A k \in 1..Len(df.cols) :
                (df.cols[k].name = DefinedCols(stmts[i])[j].name
                 /\ ListedType(df.cols[k].dtype) # "") =>
                   DefinedCols(stmts[i])[j].type = ListedType(df.cols[k].dtype)
        /\ TypesCorrected =>
             \A k \in 1..Len(df.cols) : ListedType(df.cols[k].dtype) # "" =>
                DestType(destCols, df.cols[k].name) = ListedType(df.cols[k].dtype)

\* C17: when the loop has ended there are exactly ceil(maxlen / nvarmax) - 1
\* overflow columns, and the piece a value has in overflow column i is null
\* when the value is shorter than i * nvarmax
C17_OverflowColumnCount ==
    script.pos \in {"truncate", "done"} =>
        /\ Len(script.overflow) = Ceil(script.maxlen, nvarmax) - 1
        /\ \A c \in 1..Len(script.overflow) : \A k \in 1..Len(script.lens) :
              script.lens[k] < c * nvarmax => script.overflow[c][k] = NaN

\* C18: from the start of a write call to its return or failure, and over a
\* repeated call, the dataframe of the caller keeps its columns, dtypes,
\* values and text lengths
C18_CallerFrameUntouched == [][pc # "Idle" => df' = df]_vars

\* a call returned after correct_types converted a column of its copy
C18_Witness ==
    /\ pc = "Done"
    /\ new_df # EmptyFrame
    /\ new_df.cols # df.cols

StepOrder == {<<"Idle", "SchemaChecking">>, <<"SchemaChecking", "TypeCoercing">>,
              <<"TypeCoercing", "Classifying">>, <<"Classifying", "Clearing">>,
              <<"Classifying", "Writing">>, <<"Clearing", "Writing">>,
              <<"Writing", "Done">>, <<"Done", "SchemaChecking">>}

RowWrites == CountKind(stmts, "DELETE") + CountKind(stmts, "INSERT")
                + CountKind(stmts, "UPDATE")

\* what the steps taken so far have sent: no key query in append or overwrite
\* mode or without key, a partition written only if it has rows, the table
\* cleared only in overwrite mode
StepsTaken ==
    /\ (write_mode \in {"append", "overwrite"} \/ ID_cols = <<>>) =>
          CountKind(stmts, "SELECT_KEYS") = 0
    /\ CountKind(stmts, "INSERT") > 0 => data_insert # <<>>
    /\ CountKind(stmts, "UPDATE") > 0 => data_update # <<>>
    /\ CountKind(stmts, "DELETE") > 0 => write_mode = "overwrite"
    /\ pc \in {"Clearing", "Writing", "Done"} =>
          TypesCorrected /\ err = "" /\ new_df # EmptyFrame

\* after a failed connection or a failed cast no key is read, no row is
\* written and the call does not return
NothingAfterFailure ==
    /\ (pc # "Idle" /\ conn \in {"none", "down"}) =>
          RowWrites = 0 /\ destRows = base /\ pc # "Done"
    /\ (TypesCorrected /\ new_df = EmptyFrame) =>
          /\ CountKind(stmts, "SELECT_KEYS") + RowWrites = 0
          /\ destRows = base
          /\ pc \in {"Classifying", "Failed"}
    /\ err # "" => pc = "Failed"

\* C19: a call takes its steps in the order schema checking, type coercion,
\* classification, writing, done; no key is read in append or overwrite mode
\* or without key; a partition is written only if it has rows; and once a
\* step has failed nothing more is sent and no row is written
C19_StepOrder ==
    [][/\ pc' # pc => (pc' = "Failed" \/ <<pc, pc'>> \in StepOrder)
       /\ pc = "Failed" =>
             pc' = "Failed" /\ stmts' = stmts /\ destRows' = destRows
                            /\ destCols' = destCols
       /\ StepsTaken'
       /\ NothingAfterFailure']_vars

\* a call that failed after correct_types could not cast a column
C19_Witness ==
    /\ pc = "Failed"
    /\ TypesCorrected
    /\ new_df = EmptyFrame
    /\ err = "IndexError"
    /\ df.rows # <<>>

\* C20: in append or overwrite mode, and in every mode when ID_cols is empty,
\* no key query is sent, and once the partitions are set data_insert is the
\* whole dataframe correct_types returned and data_update is empty
C20_NoClassification ==
    (pc # "Idle" /\ (write_mode \in {"append", "overwrite"} \/ ID_cols = <<>>)) =>
        /\ CountKind(stmts, "SELECT_KEYS") = 0
        /\ pc \in {"Clearing", "Writing", "Done"} =>
              data_insert = new_df.rows /\ data_update = <<>>

\* an update call without key returned after inserting rows the destination
\* already held
C20_Witness ==
    /\ pc = "Done"
    /\ write_mode = "update"
    /\ ID_cols = <<>>
    /\ data_insert # <<>>
    /\ \E k \in 1..Len(data_insert) : base[data_insert[k]] > 0

RECURSIVE RowsOfBatches(_)
RowsOfBatches(m) == IF m = <<>> THEN <<>> ELSE Head(m).rows \o RowsOfBatches(Tail(m))

\* the batches executed for a partition are consecutive ranges of at most
\* batch_size rows from its first row on, and hold its rows in their order
InOrder(p, data) ==
    LET m == BatchesOf(p)
    IN /\ \A i \in 1..Len(m) :
            /\ m[i].lo = (IF i = 1 THEN 0 ELSE m[i - 1].hi)
            /\ m[i].hi - m[i].lo \in 1..batch_size
            /\ Len(m[i].rows) = m[i].hi - m[i].lo
       /\ RowsOfBatches(m) = SubSeq(data, 1, Len(RowsOfBatches(m)))

\* C21: the batches executed for a partition are consecutive ranges of at most
\* batch_size rows, and once the loop over a partition has ended the rows of
\* its batches, in the order of execution, are the rows of the partition in
\* their order, each row in one batch
C21_BatchesPreserveOrder ==
    /\ InOrder("insert", data_insert)
    /\ InOrder("update", data_update)
    /\ ((pc = "Writing" /\ part = "update") \/ pc = "Done") =>
          RowsOfBatches(BatchesOf("insert")) = data_insert
    /\ pc = "Done" => RowsOfBatches(BatchesOf("update")) = data_update

\* a partition of different rows was written in several batches
C21_Witness ==
    /\ pc = "Done"
    /\ Len(BatchesOf("insert")) >= 2
    /\ \E i, j \in 1..Len(data_insert) : data_insert[i] # data_insert[j]

\* the rows of s with the key k
WithKey(s, k) == SelectSeq(s, LAMBDA r : KeyOf(r, ID_cols) = k)

FirstWithKey(s, k) ==
    CHOOSE i \in 1..Len(s) : /\ KeyOf(s[i], ID_cols) = k
                             /\ \A j \in 1..(i - 1) : KeyOf(s[j], ID_cols) # k

KeysOf(s) == {KeyOf(s[i], ID_cols) : i \in 1..Len(s)}

\* a partition holds every row of the dataframe with key k that belongs to
\* it, in the order of the dataframe, once for every destination row with
\* that key (data_update) or once (data_insert)
NoneDropped ==
    \A k \in KeysOf(new_df.rows) :
       /\ WithKey(data_insert, k) =
             IF \E r \in Row : base[r] > 0 /\ KeyOf(r, ID_cols) = k
             THEN <<>> ELSE WithKey(new_df.rows, k)
       /\ WithKey(data_update, k) =
             IF write_mode = "update"
             THEN TimesMatches(WithKey(new_df.rows, k), ID_cols, base) ELSE <<>>

\* the rows of one key are neighbours in the partition, and the keys follow
\* each other as they first appear in the dataframe
GroupedByKey(data) ==
    \A i, j \in 1..Len(data) :
       (i < j /\ KeyOf(data[i], ID_cols) # KeyOf(data[j], ID_cols)) =>
           FirstWithKey(new_df.rows, KeyOf(data[i], ID_cols))
              < FirstWithKey(new_df.rows, KeyOf(data[j], ID_cols))

\* the rows of a partition follow each other as in the dataframe
InArrivalOrder(data, matched) ==
    data = TimesMatches(SelectSeq(new_df.rows,
              LAMBDA r : (Matches(r, ID_cols, base) > 0) = matched), ID_cols, base)
           \o SelectSeq(new_df.rows,
                 LAMBDA r : ~matched /\ Matches(r, ID_cols, base) = 0)

\* C22 (as the code has it): rows that repeat a key are all kept in their
\* partition; a partition holds its rows grouped by key, the keys in the order
\* of their first row in the dataframe and the rows of one key in the order of
\* the dataframe, and the batches write the partition in that order
C22_GroupedOrder ==
    (Classified /\ HasKey /\ write_mode \in {"update", "skip"}) =>
        /\ NoneDropped
        /\ GroupedByKey(data_insert) /\ GroupedByKey(data_update)
        /\ InOrder("insert", data_insert) /\ InOrder("update", data_update)

\* a call returned whose dataframe held a row of another key between two rows
\* of one key, all three in one partition
C22_Witness ==
    /\ pc = "Done"
    /\ Len(new_df.rows) = 3
    /\ new_df.rows[1].id = new_df.rows[3].id
    /\ new_df.rows[1].id # new_df.rows[2].id
    /\ new_df.rows[1] # new_df.rows[3]
    /\ Len(data_insert) = 3 \/ Len(data_update) = 3

\* C22 (as the specification has it): rows that repeat a key are all kept,
\* and each partition holds and writes its rows in the order of the dataframe
C22_ArrivalOrder ==
    (Classified /\ HasKey /\ write_mode \in {"update", "skip"}) =>
        /\ NoneDropped
        /\ InArrivalOrder(data_insert, FALSE)
        /\ write_mode = "update" => InArrivalOrder(data_update, TRUE)
        /\ InOrder("insert", data_insert) /\ InOrder("update", data_update)

\* the columns the parameter markers of a statement stand for, in order: the
\* column before each '=?'
RECURSIVE MarkerCols(_, _)
MarkerCols(q, i) ==
    IF i > Len(q) THEN <<>>
    ELSE IF q[i] = "?" /\ i >= 3 /\ q[i - 1] = "=" /\ q[i - 2] \in IdentToks
    THEN <<ColOfTok(q[i - 2])>> \o MarkerCols(q, i + 1)
    ELSE MarkerCols(q, i + 1)

\* index of the WHERE token
WherePos(q) == CHOOSE i \in 1..Len(q) : q[i] = "WHERE"

\* C23: the columns bound to an UPDATE are, marker by marker, the columns the
\* markers of its text stand for: the columns outside ID_cols as SET targets
\* in the order of the dataframe, then ID_cols as WHERE predicates
C23_UpdateBinding ==
    \A i \in 1..Len(stmts) : stmts[i].kind = "UPDATE" =>
       /\ MarkerCols(stmts[i].q, 1) = BoundCols("update")
       /\ \A j \in 1..Len(batches) : batches[j].part = "update" =>
             batches[j].cols = MarkerCols(stmts[i].q, 1)
       /\ MarkerCols(SubSeq(stmts[i].q, 1, WherePos(stmts[i].q)), 1)
             = SelectSeq(ColNamesOf(new_df.cols), LAMBDA c : ~InSeq(c, ID_cols))
       /\ MarkerCols(SubSeq(stmts[i].q, WherePos(stmts[i].q), Len(stmts[i].q)), 1)
             = ID_cols

\* an update was executed for a dataframe of three columns whose two keys are
\* named in another order than the dataframe holds them
C23_Witness ==
    /\ \E j \in 1..Len(batches) : batches[j].part = "update"
    /\ Len(new_df.cols) = 3
    /\ ID_cols = <<"val", "id">>

\* C24: when a batch fails, the caller gets a WriteError that carries the row
\* range of the failed batch and the error of the driver
C24_WriteErrorWithRange ==
    (err = "DatabaseError: execute") =>
       LET e == Surfaced(err, batch_start,
                         BatchEnd(batch_start, batch_size, Len(Partition)))
       IN /\ e.class = "WriteError"
          /\ "rows" \in DOMAIN e
          /\ e.rows = <<batch_start, BatchEnd(batch_start, batch_size, Len(Partition))>>
          /\ "cause" \in DOMAIN e
          /\ e.cause = err

\* a call in update or skip mode whose dataset has no rows
EmptyDatasetCall ==
    /\ pc # "Idle"
    /\ df.rows = <<>>
    /\ write_mode \in {"update", "skip"}

\* the part of C25 about the partitions and the batches
EmptyDatasetWritesNothing ==
    EmptyDatasetCall =>
       /\ data_insert = <<>> /\ data_update = <<>>
       /\ batches = <<>>
       /\ RowWrites = 0

\* C25: for a dataset without rows in update or skip mode both partitions are
\* empty, no query for the keys of the destination is sent and no insert or
\* update batch is executed
C25_EmptyDatasetNoQuery ==
    /\ EmptyDatasetWritesNothing
    /\ EmptyDatasetCall => CountKind(stmts, "SELECT_KEYS") = 0

ThreeOverflowColumns ==
    /\ Len(script.overflow) = 3
    /\ \A i \in 1..3 : \A k \in 1..Len(script.lens) :
          script.overflow[i][k] =
             IF script.lens[k] > i * 1600
             THEN [lo |-> i * 1600, hi |-> Min(Min((i + 1) * 1600, 5000), script.lens[k])]
             ELSE NaN

IngestedLongest5000 == script.pos = "done" /\ script.maxlen = 5000

\* C27 as amended: with chunks of 1600, a text column whose longest value has
\* 5000 characters is written as a base column cut to 1600 characters and
\* declared nvarchar(1920), and exactly three overflow columns
C27_BaseCutAndThreeOverflows ==
    IngestedLongest5000 =>
       /\ DeclaredLength(script.kept) = "1920"
       /\ \A k \in 1..Len(script.lens) :
             script.kept[k] = [lo |-> 0, hi |-> Min(script.lens[k], 1600)]
       /\ ThreeOverflowColumns

\* a column of a value of 5000 characters and a value that ends in the
\* second overflow column went through the loop
C27_Witness ==
    /\ IngestedLongest5000
    /\ \E k \in 1..Len(script.lens) : script.lens[k] = 3201

\* C27 as stated: the base column is declared with the unbounded text type
C27_BaseUnbounded ==
    IngestedLongest5000 =>
       /\ DeclaredLength(script.kept) = "MAX"
       /\ ThreeOverflowColumns

\* C28: the loop of batch_write_data ends when the partition is empty or
\* batch_size is at least 1, every batch then starting further on than the one
\* before; with batch_size of 0 or less and a partition that has rows the
\* start never reaches the length of the partition and the loop is never left
\* by its test
C28_LoopTermination ==
    /\ [][(batch_size >= 1 /\ Len(batches') > Len(batches))
             => batch_start' > batch_start]_vars
    /\ (batch_size >= 1 \/ data_insert = <<>>) ~> (pc \in {"Done", "Failed"})
    /\ []((batch_size <= 0 /\ data_insert # <<>>)
             => (pc # "Done" /\ part = "insert" /\ batch_start < Len(data_insert)))

\* with a batch_size of -1 the loop has run MaxBatches times over a partition
\* of two rows and is still in it, its start below zero
C28_Witness ==
    /\ pc = "Writing"
    /\ batch_size = -1
    /\ Len(data_insert) = 2
    /\ Len(batches) = MaxBatches
    /\ batch_start < 0

\* the call has ended by its return or by the exception of a batch
ReturnedOrBatchFailed ==
    pc = "Done" \/ (pc = "Failed" /\ err = "DatabaseError: execute")

\* C29: when the call has ended, by its return or by the failure of a batch,
\* every connection it opened has been closed
C29_ConnectionsClosed ==
    ReturnedOrBatchFailed => open_cons = NoneOpen

\* where the text of value k ends when its base value and its non-null pieces
\* in overflow columns 1..n are put end to end; -1 when a piece does not
\* start where the text before it ends
RECURSIVE JoinedUpTo(_, _)
JoinedUpTo(k, n) ==
    IF n = 0 THEN (IF script.kept[k].lo = 0 THEN script.kept[k].hi ELSE -1)
    ELSE LET p == script.overflow[n][k]
         IN IF p = NaN THEN JoinedUpTo(k, n - 1)
            ELSE IF JoinedUpTo(k, n - 1) = p.lo /\ p.hi > p.lo THEN p.hi
            ELSE -1

\* C30: after the splitting, the base value followed by the non-null overflow
\* pieces of its row in the order of their index is the value that was read,
\* and a value of at most nvarmax characters is left whole, all its overflow
\* pieces null
C30_SplitLosesNoText ==
    script.pos = "done" =>
       \A k \in 1..Len(script.lens) :
          /\ JoinedUpTo(k, Len(script.overflow)) = script.lens[k]
          /\ script.lens[k] <= nvarmax =>
                /\ script.kept[k] = [lo |-> 0, hi |-> script.lens[k]]
                /\ \A i \in 1..Len(script.overflow) : script.overflow[i][k] = NaN

\* a column with a value that fills three overflow pieces next to a value
\* that needs none was split
C30_Witness ==
    /\ script.pos = "done"
    /\ Len(script.overflow) = 3
    /\ \E k \in 1..Len(script.lens) :
          script.lens[k] = 5000 /\ script.overflow[3][k] = [lo |-> 4800, hi |-> 5000]
    /\ \E k \in 1..Len(script.lens) : script.lens[k] = 1600

====
